---- MODULE Spec2Model ----
(***************************************************************************)
(* Session orchestration layer of the tutoring simulation server:          *)
(*   server/conversationManager.mjs  - the in-memory session store         *)
(*   server/index.mjs                - POST /api/interact/start,           *)
(*                                     POST /api/interact,                 *)
(*                                     POST /api/tutor-response            *)
(*   ITERATION_LOG.md                - server/tutorPrompts.mjs             *)
(*   src/hooks/useStudentSimulation.ts - the browser client of the server  *)
(* A handler runs to completion between two awaits; every piece of code    *)
(* between two awaits is one action.                                       *)
(***************************************************************************)
EXTENDS Integers, Sequences, FiniteSets, TLC

VARIABLES
  conversations,  \* conversationManager.mjs: const conversations = new Map()
  clock,          \* the wall clock read by new Date()
  lastCall,       \* the last direct call of a store function and what it returned
  ended,          \* history: ids on which endConversation has been called
  reqs,           \* the HTTP requests being handled, one record per request slot
  sent,           \* the last HTTP response sent, with the request it answers
  irregular,      \* irregular events so far: failed dialogue generations and
                  \* requests accepted while another one was being handled
  overlapped,     \* history: a turn request was accepted while another request
                  \* was being handled
  judgeCalls,     \* history: judgment calls made so far, per conversation
  client          \* useStudentSimulation.ts: the state of the hook in the browser

vars == <<conversations, clock, lastCall, ended, reqs, sent, irregular,
          overlapped, judgeCalls, client>>
histVars == <<overlapped, judgeCalls>>
httpVars == <<reqs, sent, irregular, histVars, client>>

----------------------------------------------------------------------------
(* Program constants *)

\* conversationManager.mjs:8
MAX_TURNS == 10
\* index.mjs:211  studentMessages.length >= 5
StudentMsgThreshold == 5
\* index.mjs:339  turn >= 6
JudgeTurn == 6
\* index.mjs:327  turn <= 5 ? 'diagnostic' : 'tutoring'
PhaseBoundary == 5
\* index.mjs:240, 261, 262  default level
DefaultLevel == 3
\* ITERATION_LOG.md:295  turn <= 5 ? 'diagnostic' : 'tutoring'
TutorDiagnosticTurns == 5
\* ITERATION_LOG.md:274  estimatedLevel >= 4
StrategyTransferLevel == 4

(* Bounds of the model *)

\* direct store calls: student-authored messages appended to one session
MaxStoreStudentMsgs == 1
\* direct store calls: tutor messages appended beyond maxTurns
MaxExtraTurns == 1
\* largest value of the wall clock
MaxClock == 1
\* irregular events of one run: failed dialogue generations (an error, or a
\* completion without content) and requests accepted while another request
\* is being handled
MaxIrregular == 1
\* length of a judgment response that is plain text
MaxRawLen == 2
\* direct calls of the prompt functions: largest turn number
MaxStrategyTurn == 7
\* direct calls of the prompt functions: length of the message history
MaxHistory == 3
\* direct calls of quickEstimateForStrategy: length of the message history
MaxEstimateHistory == 4
\* the client: messages its list holds beyond the length of the server's log
\* when it starts another automatic turn
MaxClientExcess == 1

----------------------------------------------------------------------------
(* Values *)

\* JavaScript null / undefined where the other values are records
Null == [null |-> TRUE]

\* message.content === null of a chat completion
NullContent == "<null>"

ConvIds == {"conv_1"}
UnknownId == "conv_unknown"
MissingId == ""
RequestIds == ConvIds \cup {UnknownId, MissingId}

\* students of the cache file; only some have an entry in studentPersonalities
Students == {"stu_known", "stu_nopersonality"}
Topic == "topic_1"

Roles == {"tutor", "student"}

\* JavaScript values that can sit in the "level" member of the judgment JSON
\* (and so in a stored prediction): an integer v, the number v + 1/2, the
\* string holding the decimal digits of v, or undefined (member absent).
IntLevel(v) == [t |-> "int", v |-> v]
HalfLevel(v) == [t |-> "half", v |-> v]
StrLevel(v) == [t |-> "str", v |-> v]
UndefLevel == [t |-> "undef", v |-> 0]
NullLevel == [t |-> "null", v |-> 0]

FallbackRationale == "Default (prediction failed)"

----------------------------------------------------------------------------
(* conversationManager.mjs *)

NewConversation(id, studentId, topicId) ==
  [ id               |-> id,
    studentId        |-> studentId,
    topicId          |-> topicId,
    messages         |-> << >>,
    turnNumber       |-> 0,
    maxTurns         |-> MAX_TURNS,
    isComplete       |-> FALSE,
    lockedPrediction |-> Null ]

createConversation(convs, id, studentId, topicId) ==
  (id :> NewConversation(id, studentId, topicId)) @@ convs

createConversationRet(id, studentId, topicId) ==
  [ conversation_id |-> id, student_id |-> studentId,
    topic_id |-> topicId, max_turns |-> MAX_TURNS ]

getConversation(convs, id) ==
  IF id \in DOMAIN convs THEN convs[id] ELSE Null

\* Mutant: the turn counter counts every message, not only the tutor's.
addMessage_countsAll(convs, id, role, content) ==
  IF id \notin DOMAIN convs THEN convs
  ELSE LET c  == convs[id]
           tn == c.turnNumber + 1
       IN [convs EXCEPT ![id] =
             [c EXCEPT !.messages   = Append(c.messages, [role |-> role, content |-> content]),
                       !.turnNumber = tn,
                       !.isComplete = IF tn >= c.maxTurns THEN TRUE ELSE c.isComplete]]

\* Mutant: the completion check is strict (turnNumber > maxTurns).
addMessage_lateComplete(convs, id, role, content) ==
  IF id \notin DOMAIN convs THEN convs
  ELSE LET c  == convs[id]
           tn == IF role = "tutor" THEN c.turnNumber + 1 ELSE c.turnNumber
       IN [convs EXCEPT ![id] =
             [c EXCEPT !.messages   = Append(c.messages, [role |-> role, content |-> content]),
                       !.turnNumber = tn,
                       !.isComplete = IF tn > c.maxTurns THEN TRUE ELSE c.isComplete]]

\* Mutant: the message is put at the head of the log.
addMessage_prepend(convs, id, role, content) ==
  IF id \notin DOMAIN convs THEN convs
  ELSE LET c  == convs[id]
           tn == IF role = "tutor" THEN c.turnNumber + 1 ELSE c.turnNumber
       IN [convs EXCEPT ![id] =
             [c EXCEPT !.messages   = <<[role |-> role, content |-> content]>> \o c.messages,
                       !.turnNumber = tn,
                       !.isComplete = IF tn >= c.maxTurns THEN TRUE ELSE c.isComplete]]

addMessage(convs, id, role, content) ==
  IF id \notin DOMAIN convs THEN convs
  ELSE LET c  == convs[id]
           tn == IF role = "tutor" THEN c.turnNumber + 1 ELSE c.turnNumber
       IN [convs EXCEPT ![id] =
             [c EXCEPT !.messages   = Append(c.messages, [role |-> role, content |-> content]),
                       !.turnNumber = tn,
                       !.isComplete = IF tn >= c.maxTurns THEN TRUE ELSE c.isComplete]]

endConversation(convs, id) ==
  IF id \in DOMAIN convs THEN [convs EXCEPT ![id].isComplete = TRUE] ELSE convs

\* Mutant: last writer wins.
setLockedPrediction_overwrite(convs, id, level, rationale, now) ==
  IF id \in DOMAIN convs
  THEN [convs EXCEPT ![id].lockedPrediction =
          [ level |-> level, rationale |-> rationale,
            lockedAtTurn |-> convs[id].turnNumber, lockedAt |-> now ]]
  ELSE convs

setLockedPrediction(convs, id, level, rationale, now) ==
  IF id \in DOMAIN convs /\ convs[id].lockedPrediction = Null
  THEN [convs EXCEPT ![id].lockedPrediction =
          [ level |-> level, rationale |-> rationale,
            lockedAtTurn |-> convs[id].turnNumber, lockedAt |-> now ]]
  ELSE convs

getLockedPrediction(convs, id) ==
  IF id \in DOMAIN convs THEN convs[id].lockedPrediction ELSE Null

StudentCount(msgs) ==
  Cardinality({i \in 1..Len(msgs) : msgs[i].role = "student"})

TutorCount(msgs) ==
  Cardinality({i \in 1..Len(msgs) : msgs[i].role = "tutor"})

----------------------------------------------------------------------------
(* Request slots *)

\* requests handled at the same time
Reqs == {1, 2}

\* what a handler keeps across an await: where it stands, conversation_id,
\* the turn computed at line 299, the completion text it got, the phase
\* that buildTutorMessages (called at line 309) handed to
\* buildStrategyDirective; len0 is history: the length of the message log
\* when the handler was entered
IdleReq ==
  [ pc |-> "idle", cid |-> MissingId, turn |-> 0, reply |-> "", len0 |-> 0,
    strategyPhase |-> "" ]

\* a response: the endpoint, the conversation_id and tutor_message of the
\* request, the answer of the judgment call the handler made (Null if none),
\* what setLockedPrediction returned to it, and the body
Sent(kind, cid, msg, raw, lockRet, resp) ==
  [ kind |-> kind, cid |-> cid, msg |-> msg, raw |-> raw,
    lockRet |-> lockRet, resp |-> resp ]

NoneSent == Sent("none", MissingId, "", Null, Null, Null)

\* one direct call of a store function: its arguments and its return value
Call(op, id, role, level, rationale, val) ==
  [ op |-> op, id |-> id, role |-> role, level |-> level,
    rationale |-> rationale, val |-> val ]

NoCall == Call("none", MissingId, "", NullLevel, "", Null)

\* useStudentSimulation.ts 53-55: currentConversation (its conversation_id,
\* MissingId for null), messages, currentTurn; pc is the call of the hook
\* that is waiting for a response, pending the tutor message it will send
IdleClient ==
  [ pc |-> "idle", currentConversation |-> MissingId, messages |-> << >>,
    currentTurn |-> 0, pending |-> "" ]

Init ==
  /\ conversations = << >>
  /\ clock = 0
  /\ lastCall = NoCall
  /\ ended = {}
  /\ reqs = [r \in Reqs |-> IdleReq]
  /\ sent = NoneSent
  /\ irregular = 0
  /\ overlapped = FALSE
  /\ judgeCalls = [c \in ConvIds |-> 0]
  /\ client = IdleClient

----------------------------------------------------------------------------
(* The store called directly, in any order *)

StoreTexts == {"m"}
StoreStudents == {"stu_known"}
\* a call for an id that is not in the map returns before it reads its other
\* arguments: one value of each is enough there
StoreArgs(id, S) == IF id \in ConvIds THEN S ELSE {CHOOSE x \in S : TRUE}
StorePredictions == { <<IntLevel(4), "clear reasoning">>, <<IntLevel(2), "">> }

Tick ==
  /\ clock < MaxClock
  /\ clock' = clock + 1
  /\ UNCHANGED <<conversations, lastCall, ended, httpVars>>

StoreCreate ==
  \E id \in ConvIds, s \in StoreStudents :
    /\ id \notin DOMAIN conversations
    /\ conversations' = createConversation(conversations, id, s, Topic)
    /\ lastCall' = Call("createConversation", id, "", NullLevel, "",
                      createConversationRet(id, s, Topic))
    /\ UNCHANGED <<clock, ended, httpVars>>

StoreAddMessage ==
  \E id \in ConvIds \cup {UnknownId} : \E role \in StoreArgs(id, Roles), text \in StoreTexts :
    /\ id \in DOMAIN conversations =>
         /\ role = "tutor" =>
              conversations[id].turnNumber < MAX_TURNS + MaxExtraTurns
         /\ role = "student" =>
              StudentCount(conversations[id].messages) < MaxStoreStudentMsgs
    /\ conversations' = addMessage(conversations, id, role, text)
    /\ lastCall' = Call("addMessage", id, role, NullLevel, "",
                      getConversation(conversations', id))
    /\ UNCHANGED <<clock, ended, httpVars>>

StoreEndConversation ==
  \E id \in ConvIds \cup {UnknownId} :
    /\ conversations' = endConversation(conversations, id)
    /\ lastCall' = Call("endConversation", id, "", NullLevel, "",
                      getConversation(conversations', id))
    /\ ended' = IF id \in DOMAIN conversations THEN ended \cup {id} ELSE ended
    /\ UNCHANGED <<clock, httpVars>>

StoreSetLockedPrediction ==
  \E id \in ConvIds \cup {UnknownId} : \E p \in StoreArgs(id, StorePredictions) :
    /\ conversations' = setLockedPrediction(conversations, id, p[1], p[2], clock)
    /\ lastCall' = Call("setLockedPrediction", id, "", p[1], p[2],
                      getLockedPrediction(conversations', id))
    /\ UNCHANGED <<clock, ended, httpVars>>

NextStore ==
  \/ Tick
  \/ StoreCreate
  \/ StoreAddMessage
  \/ StoreEndConversation
  \/ StoreSetLockedPrediction

SpecStore == Init /\ [][NextStore]_vars

----------------------------------------------------------------------------
(* The judgment service and the parsing of its answer (index.mjs) *)

Chars == {"x", "4", "9"}
Digits == {"0", "1", "2", "3", "4", "5", "6", "7", "8", "9"}
\* the character class of rawPrediction.match(/[1-5]/)
LevelDigits == {"1", "2", "3", "4", "5"}

DigitVal(ch) ==
  CASE ch = "0" -> 0 [] ch = "1" -> 1 [] ch = "2" -> 2 [] ch = "3" -> 3
    [] ch = "4" -> 4 [] ch = "5" -> 5 [] ch = "6" -> 6 [] ch = "7" -> 7
    [] ch = "8" -> 8 [] ch = "9" -> 9

SeqsUpTo(S, n) == UNION {[1..k -> S] : k \in 0..n}

Str(s) == [t |-> "str", s |-> s]
Undef == [t |-> "undef", s |-> ""]

\* the members level and rationale of the JSON objects the service answers with
JsonAnswers ==
  { <<IntLevel(4), Str("clear reasoning")>>, <<IntLevel(1), Str("")>>,
    <<IntLevel(5), Str("clear reasoning")>>, <<IntLevel(0), Str("clear reasoning")>>,
    <<IntLevel(6), Undef>>, <<HalfLevel(2), Str("")>>,
    <<StrLevel(4), Str("")>>, <<UndefLevel, Str("clear reasoning")>> }

\* an answer in prose that names two levels
ProseTexts == { <<"4", "x", "1">> }

\* What the judgment call can come back with:
\*   throw    - the call rejects (error, timeout)
\*   null     - a completion whose message.content is null
\*   jsonnull - the text  null
\*   text     - the characters of chars (JSON if they spell a number)
\*   object   - the text of a JSON object with the members level and rationale
Raw(k, chars, level, rationale) ==
  [k |-> k, chars |-> chars, level |-> level, rationale |-> rationale]

JudgeOutputs ==
  {Raw("throw", << >>, UndefLevel, Undef), Raw("null", << >>, UndefLevel, Undef),
   Raw("jsonnull", << >>, UndefLevel, Undef)}
  \cup {Raw("text", c, UndefLevel, Undef) : c \in SeqsUpTo(Chars, MaxRawLen)}
  \cup {Raw("text", c, UndefLevel, Undef) : c \in ProseTexts}
  \cup {Raw("object", << >>, a[1], a[2]) : a \in JsonAnswers}

\* JSON.parse accepts the text: of the texts over Chars, exactly the numbers
IsJsonNumber(chars) ==
  /\ Len(chars) > 0
  /\ \A i \in 1..Len(chars) : chars[i] \in Digits

\* JavaScript: the value is truthy, value >= 1, value <= 5
Truthy(l) == \/ l.t = "int" /\ l.v # 0
             \/ l.t = "half"
             \/ l.t = "str"
AtLeast1(l) == l.t \in {"int", "half", "str"} /\ l.v >= 1
AtMost5(l) == \/ l.t \in {"int", "str"} /\ l.v <= 5
              \/ l.t = "half" /\ l.v < 5

\* Mutant: the scan takes the last character of the class.
FirstLevelDigit_last(chars) ==
  LET hits == {i \in 1..Len(chars) : chars[i] \in LevelDigits}
  IN IF hits = {} THEN 0 ELSE CHOOSE i \in hits : \A j \in hits : i >= j

\* rawPrediction.match(/[1-5]/): index of the first character of the class, 0 if none
FirstLevelDigit(chars) ==
  LET hits == {i \in 1..Len(chars) : chars[i] \in LevelDigits}
  IN IF hits = {} THEN 0 ELSE CHOOSE i \in hits : \A j \in hits : i <= j

\* Mutant: the range check of the parsed level excludes 5.
ParsePrediction_exclusive(raw) ==
  CASE raw.k \in {"throw", "null"} ->
         [threw |-> TRUE, level |-> IntLevel(DefaultLevel), rationale |-> ""]
    [] raw.k = "object" ->
         [threw |-> FALSE,
          level |-> IF Truthy(raw.level) /\ AtLeast1(raw.level) /\ raw.level.v < 5
                    THEN raw.level ELSE IntLevel(DefaultLevel),
          rationale |-> IF raw.rationale.t = "str" THEN raw.rationale.s ELSE ""]
    [] OTHER ->
         [threw |-> FALSE, level |-> IntLevel(DefaultLevel), rationale |-> ""]

\* index.mjs 237-254 (and 363-382): level and rationale read from the answer;
\* threw: an exception leaves the block for the catch of line 259 (388).
ParsePrediction(raw) ==
  CASE raw.k = "throw" ->
         \* the awaited call rejects
         [threw |-> TRUE, level |-> IntLevel(DefaultLevel), rationale |-> ""]
    [] raw.k = "null" ->
         \* JSON.parse(null) is null; null.level throws; in the catch,
         \* null.match throws again
         [threw |-> TRUE, level |-> IntLevel(DefaultLevel), rationale |-> ""]
    [] raw.k = "jsonnull" ->
         \* parsed is null; null.level throws; 'null'.match(/[1-5]/) is null
         [threw |-> FALSE, level |-> IntLevel(DefaultLevel), rationale |-> ""]
    [] raw.k = "object" ->
         [threw |-> FALSE,
          level |-> IF Truthy(raw.level) /\ AtLeast1(raw.level) /\ AtMost5(raw.level)
                    THEN raw.level ELSE IntLevel(DefaultLevel),
          rationale |-> IF raw.rationale.t = "str" THEN raw.rationale.s ELSE ""]
    [] raw.k = "text" /\ IsJsonNumber(raw.chars) ->
         \* parsed is a number: parsed.level and parsed.rationale are undefined
         [threw |-> FALSE, level |-> IntLevel(DefaultLevel), rationale |-> ""]
    [] raw.k = "text" /\ ~IsJsonNumber(raw.chars) ->
         \* JSON.parse throws a SyntaxError
         LET i == FirstLevelDigit(raw.chars)
         IN [threw |-> FALSE,
             level |-> IF i > 0 THEN IntLevel(DigitVal(raw.chars[i]))
                       ELSE IntLevel(DefaultLevel),
             rationale |-> ""]

\* Mutant: a failed judgment leaves the session without a prediction.
Prediction_noFallback(raw) ==
  LET p == ParsePrediction(raw)
  IN IF p.threw
     THEN [level |-> NullLevel, rationale |-> FallbackRationale, store |-> FALSE,
           escapes |-> FALSE]
     ELSE [level |-> p.level, rationale |-> p.rationale, store |-> TRUE,
           escapes |-> FALSE]

\* Mutant: the judgment block has no catch of its own.
Prediction_uncaught(raw) ==
  LET p == ParsePrediction(raw)
  IN IF p.threw
     THEN [level |-> NullLevel, rationale |-> "", store |-> FALSE, escapes |-> TRUE]
     ELSE [level |-> p.level, rationale |-> p.rationale, store |-> TRUE,
           escapes |-> FALSE]

\* index.mjs 215-263 (and 345-395): the level and rationale handed to
\* setLockedPrediction, the level being also the estimatedLevel of the
\* response; escapes: an exception leaves the block for the handler's catch
\* of line 276 (411), which the catch of line 259 (388) never lets happen
Prediction(raw) ==
  LET p == ParsePrediction(raw)
  IN IF p.threw
     THEN [level |-> IntLevel(DefaultLevel), rationale |-> FallbackRationale,
           store |-> TRUE, escapes |-> FALSE]
     ELSE [level |-> p.level, rationale |-> p.rationale, store |-> TRUE,
           escapes |-> FALSE]

----------------------------------------------------------------------------
(* tutorPrompts.mjs, as listed in ITERATION_LOG.md *)

\* A text is the sequence of its characters.

\* message.content === null
NullText == <<"<null>">>

UpperCase ==
  <<"A", "B", "C", "D", "E", "F", "G", "H", "I", "J", "K", "L", "M", "N", "O", "P", "Q", "R", "S", "T", "U", "V", "W", "X", "Y", "Z">>
LowerCase ==
  <<"a", "b", "c", "d", "e", "f", "g", "h", "i", "j", "k", "l", "m", "n", "o", "p", "q", "r", "s", "t", "u", "v", "w", "x", "y", "z">>

\* String.prototype.toLowerCase
toLowerCase(text) ==
  [i \in 1..Len(text) |->
     IF \E k \in 1..Len(UpperCase) : UpperCase[k] = text[i]
     THEN LowerCase[CHOOSE k \in 1..Len(UpperCase) : UpperCase[k] = text[i]]
     ELSE text[i]]

\* String.prototype.includes
includes(text, marker) ==
  \E i \in 1..(Len(text) - Len(marker) + 1) :
    \A k \in 1..Len(marker) : text[i + k - 1] = marker[k]

\* ITERATION_LOG.md 177-189
CONFUSION_MARKERS ==
  { <<"d", "o", "n", "t", " ", "u", "n", "d", "e", "r", "s", "t", "a", "n", "d">>,
    <<"d", "o", "n", "'", "t", " ", "u", "n", "d", "e", "r", "s", "t", "a", "n", "d">>,
    <<"d", "o", " ", "n", "o", "t", " ", "u", "n", "d", "e", "r", "s", "t", "a", "n", "d">>,
    <<"i", "d", "k">>,
    <<"n", "o", " ", "i", "d", "e", "a">>,
    <<"n", "o", "t", " ", "s", "u", "r", "e">>,
    <<"i", " ", "d", "o", "n", "t", " ", "k", "n", "o", "w">>,
    <<"i", " ", "d", "o", "n", "'", "t", " ", "k", "n", "o", "w">>,
    <<"i", " ", "a", "m", " ", "l", "o", "s", "t">>,
    <<"i", "m", " ", "l", "o", "s", "t">>,
    <<"c", "o", "n", "f", "u", "s", "e", "d">> }

\* ITERATION_LOG.md 193
hedgeMarkers ==
  { <<"m", "a", "y", "b", "e">>,
    <<"i", " ", "t", "h", "i", "n", "k">>,
    <<"i", " ", "g", "u", "e", "s", "s">>,
    <<"n", "o", "t", " ", "s", "u", "r", "e">>,
    <<"u", "n", "s", "u", "r", "e">> }

\* ITERATION_LOG.md 194
reasonMarkers ==
  { <<"b", "e", "c", "a", "u", "s", "e">>,
    <<"s", "o", " ", "t", "h", "a", "t">>,
    <<"t", "h", "e", "r", "e", "f", "o", "r", "e">>,
    <<"s", "i", "n", "c", "e">>,
    <<"s", "o">>,
    <<"m", "e", "a", "n", "s">>,
    <<"r", "e", "a", "s", "o", "n">> }

\* ITERATION_LOG.md 201-219: what one student message adds to the score
messageScore(content) ==
  LET text == toLowerCase(IF content = NullText THEN << >> ELSE content)
  IN (IF \E m \in CONFUSION_MARKERS : includes(text, m) THEN -2 ELSE 0)
     + (IF \E m \in hedgeMarkers : includes(text, m) THEN -1 ELSE 0)
     + (IF \E m \in reasonMarkers : includes(text, m) THEN 1 ELSE 0)
     + (IF includes(text, <<"w", "a", "i", "t">>) \/ includes(text, <<"a", "c", "t", "u", "a", "l", "l", "y">>)
        THEN 1 ELSE 0)
     + (IF \E i \in 1..Len(text) : text[i] \in Digits THEN 1 ELSE 0)

\* Mutant: the last three messages of any role are read.
lastThreeStudentMessages_anyRole(messages) ==
  IF Len(messages) <= 3 THEN messages
  ELSE SubSeq(messages, Len(messages) - 2, Len(messages))

\* messages.filter(m => m.role === 'student').slice(-3)
lastThreeStudentMessages(messages) ==
  LET st == SelectSeq(messages, LAMBDA m : m.role = "student")
  IN IF Len(st) <= 3 THEN st ELSE SubSeq(st, Len(st) - 2, Len(st))

\* ITERATION_LOG.md 196-219: the score of the messages
RECURSIVE sumScores(_)
sumScores(msgs) ==
  IF msgs = << >> THEN 0
  ELSE messageScore(Head(msgs).content) + sumScores(Tail(msgs))

\* ITERATION_LOG.md 192-226
quickEstimateForStrategy(messages) ==
  LET score == sumScores(lastThreeStudentMessages(messages))
  IN IF score <= -3 THEN 1
     ELSE IF score <= -1 THEN 2
     ELSE IF score <= 1 THEN 3
     ELSE IF score <= 3 THEN 4
     ELSE 5

\* ITERATION_LOG.md 242-246: the directive of turn 1
OpeningSurveyDirective ==
  [ text |-> "Adaptive strategy: Follow the TURN 1 Opening Survey structure exactly. Include the 3 questions labeled Basic/Intermediate/Advanced. Do not add extra questions beyond those three." ]

GuidanceDiagnosticConfused ==
  "If the student is confused, acknowledge it and give ONE short clarification, then ask ONE simple check question."
GuidanceDiagnostic ==
  "Ask at most TWO short diagnostic questions. Require a brief reason for one."
GuidanceTutoringConfused ==
  "Start by resolving the confusion from the last turn in 2-3 sentences, then ask ONE focused check question."
GuidanceTutoringTransfer ==
  "Ask a transfer or 'why' question to probe depth. Require a 1-sentence justification."
GuidanceTutoringExplain ==
  "Give a concise explanation, then ask ONE practice question plus a short reason."

\* Mutant: the first student message is read, not the last.
lastStudentText_first(messages) ==
  LET st == SelectSeq(messages, LAMBDA m : m.role = "student")
  IN IF st = << >> \/ st[1].content = NullText THEN << >>
     ELSE st[1].content

\* [...messages].reverse().find(m => m.role === 'student')?.content || ''
lastStudentText(messages) ==
  LET st == SelectSeq(messages, LAMBDA m : m.role = "student")
  IN IF st = << >> \/ st[Len(st)].content = NullText THEN << >>
     ELSE st[Len(st)].content

\* ITERATION_LOG.md 254-283
chooseGuidance(phase, isConfused, estimatedLevel) ==
  IF phase = "diagnostic"
  THEN IF isConfused THEN GuidanceDiagnosticConfused ELSE GuidanceDiagnostic
  ELSE IF isConfused THEN GuidanceTutoringConfused
  ELSE IF estimatedLevel >= StrategyTransferLevel THEN GuidanceTutoringTransfer
  ELSE GuidanceTutoringExplain

\* the text of lines 285-290 with the values put into its placeholders
AdaptiveDirective(turn, maxTurns, phase, topicName, estimatedLevel, guidance) ==
  [ text |-> "Adaptive strategy: turn=${turn}/${maxTurns}, phase=${phase}, topic=${topic.name || ''}, estimated_level=${estimatedLevel}. ${guidance} Avoid long lectures and always respond to the last student message.",
    turn |-> turn, maxTurns |-> maxTurns, phase |-> phase, topic |-> topicName,
    estimated_level |-> estimatedLevel, guidance |-> guidance ]

\* Mutant: the opening survey is chosen by an empty history, not by the turn.
buildStrategyDirective_byHistory(turn, maxTurns, phase, topic, messages) ==
  IF messages = << >> THEN OpeningSurveyDirective
  ELSE AdaptiveDirective(turn, maxTurns, phase, topic.name,
                         quickEstimateForStrategy(messages),
                         chooseGuidance(phase, FALSE, quickEstimateForStrategy(messages)))

\* ITERATION_LOG.md 240-291
buildStrategyDirective(turn, maxTurns, phase, topic, messages) ==
  IF turn = 1 THEN OpeningSurveyDirective
  ELSE LET lastText == toLowerCase(lastStudentText(messages))
           isConfused == \E m \in CONFUSION_MARKERS : includes(lastText, m)
           estimatedLevel == quickEstimateForStrategy(messages)
       IN AdaptiveDirective(turn, maxTurns, phase, topic.name, estimatedLevel,
                            chooseGuidance(phase, isConfused, estimatedLevel))

\* ITERATION_LOG.md 295
TutorMessagesPhase(turn) ==
  IF turn <= TutorDiagnosticTurns THEN "diagnostic" ELSE "tutoring"

\* ITERATION_LOG.md 299-312: the text with the values put into its placeholders
turnDirective(turn, maxTurns, phase) ==
  [ text |-> IF turn = 1
             THEN "Turn ${turn} of ${maxTurns}. Phase: ${phase}. Follow the TURN 1 Opening Survey structure exactly. Ask exactly 3 questions labeled Basic/Intermediate/Advanced."
             ELSE "Turn ${turn} of ${maxTurns}. Phase: ${phase}. Diagnostic phase: ask short questions only; no teaching. Tutoring phase: explain and teach based on the student's level.",
    turn |-> turn, maxTurns |-> maxTurns, phase |-> phase ]

\* ITERATION_LOG.md 229-237
buildTutorSystemPrompt(student, topic, turn, maxTurns) ==
  [ text |-> "TUTORING_SYSTEM_PROMPT", name |-> student.name, topic |-> topic.name,
    turn |-> turn, maxTurns |-> maxTurns ]

\* ITERATION_LOG.md 294-332
buildTutorMessages(student, topic, conversationMessages, turn, maxTurns) ==
  LET phase == TutorMessagesPhase(turn)
      history == SelectSeq(conversationMessages,
                           LAMBDA m : m.role \in {"tutor", "student"})
  IN << [role |-> "system",
         content |-> buildTutorSystemPrompt(student, topic, turn, maxTurns)],
        [role |-> "system", content |-> turnDirective(turn, maxTurns, phase)],
        [role |-> "system",
         content |-> buildStrategyDirective(turn, maxTurns, phase, topic,
                                            conversationMessages)] >>
     \o [i \in 1..Len(history) |->
           [role |-> IF history[i].role = "tutor" THEN "assistant" ELSE "user",
            content |-> history[i].content]]

----------------------------------------------------------------------------
(* The HTTP handlers (index.mjs) *)

ErrStartRequired == "student_id and topic_id are required"
ErrStudentNotFound == "Student not found"
ErrTopicNotFound == "Topic not found for this student"
ErrInteractRequired == "conversation_id and tutor_message are required"
ErrNotFound == "Conversation not found"
ErrComplete == "Conversation is already complete"
ErrSystemPrompt == "Failed to build system prompt"
ErrStudentResponse == "Failed to generate student response"
ErrTutorRequired == "conversation_id is required"
ErrTutorResponse == "Failed to generate tutor response"

\* studentPersonalities.mjs: buildSystemPrompt returns null for a student
\* without an entry
HasPersonality(studentId) == studentId = "stu_known"

\* Mutant: every student id is taken for a student of the cache file.
findStudent_any(studentId) == studentId = studentId

\* findStudent / findTopic over the cache file
findStudent(studentId) == studentId \in Students
findTopic(studentId, topicId) == findStudent(studentId) /\ topicId = Topic

StartStudentIds == Students \cup {"stu_unknown", ""}
StartTopicIds == {Topic, "topic_unknown", ""}
TutorMessages == {"q", ""}
StudentReplies == {"a"}
TutorReplies == {"t"}

ErrorResp(status, error) ==
  [ status |-> status, error |-> error, message |-> "", turn_number |-> 0,
    flag |-> FALSE, phase |-> "", estimated_level |-> NullLevel ]

\* res.json of /api/interact: flag is is_complete
InteractResp(message, turn, complete, level) ==
  [ status |-> 200, error |-> "", message |-> message, turn_number |-> turn,
    flag |-> complete, phase |-> "", estimated_level |-> level ]

\* res.json of /api/tutor-response: flag is is_last_turn
TutorResp(message, turn, phase, level, last) ==
  [ status |-> 200, error |-> "", message |-> message, turn_number |-> turn,
    flag |-> last, phase |-> phase, estimated_level |-> level ]

storeVars == <<clock, lastCall, ended>>

\* handler r stands at pc and the previous response has left the server
At(r, pc) == sent = NoneSent /\ reqs[r].pc = pc

\* a handler takes the first free slot
FreeSlot(r) ==
  /\ At(r, "idle")
  /\ \A q \in Reqs : q < r => reqs[q].pc # "idle"

Busy == \E q \in Reqs : reqs[q].pc # "idle"

\* a handler that suspends at an await while another one is suspended
Overlap ==
  /\ Busy => irregular < MaxIrregular
  /\ irregular' = IF Busy THEN irregular + 1 ELSE irregular

\* POST /api/interact/start (122-149) with the body {student_id, topic_id}
StartRequest(r, sid, tid) ==
    /\ FreeSlot(r)
    /\ LET err == IF sid = "" \/ tid = "" THEN ErrorResp(400, ErrStartRequired)
                  ELSE IF ~findStudent(sid) THEN ErrorResp(404, ErrStudentNotFound)
                  ELSE IF ~findTopic(sid, tid) THEN ErrorResp(404, ErrTopicNotFound)
                  ELSE Null
       IN IF err # Null
          THEN /\ sent' = Sent("start", MissingId, "", Null, Null, err)
               /\ UNCHANGED conversations
          ELSE \E id \in ConvIds \ DOMAIN conversations :
                 /\ conversations' = createConversation(conversations, id, sid, tid)
                 /\ sent' = Sent("start", id, "", Null, Null,
                                 [ErrorResp(200, "") EXCEPT !.turn_number = MAX_TURNS])
    /\ UNCHANGED <<storeVars, reqs, irregular, histVars>>

\* POST /api/interact/start from any caller
StartSession(r) ==
  \E sid \in StartStudentIds, tid \in StartTopicIds :
    /\ StartRequest(r, sid, tid)
    /\ UNCHANGED client

\* Mutant: a complete conversation still accepts a tutor message.
InteractReject_noCompleteCheck(cid, msg) ==
  IF cid = MissingId \/ msg = "" THEN ErrorResp(400, ErrInteractRequired)
  ELSE IF getConversation(conversations, cid) = Null THEN ErrorResp(404, ErrNotFound)
  ELSE Null

\* index.mjs 155-166: the error response of a rejected request, Null if accepted
InteractReject(cid, msg) ==
  IF cid = MissingId \/ msg = "" THEN ErrorResp(400, ErrInteractRequired)
  ELSE IF getConversation(conversations, cid) = Null THEN ErrorResp(404, ErrNotFound)
  ELSE IF conversations[cid].isComplete THEN ErrorResp(400, ErrComplete)
  ELSE Null

\* POST /api/interact with the body {conversation_id, tutor_message}, up to
\* the await of the student's completion (152-182)
InteractRequest(r, cid, msg) ==
    /\ FreeSlot(r)
    /\ LET err == InteractReject(cid, msg)
       IN /\ IF err # Null
             THEN /\ sent' = Sent("interact", cid, msg, Null, Null, err)
                  /\ UNCHANGED <<conversations, reqs, irregular>>
             ELSE /\ conversations' = addMessage(conversations, cid, "tutor", msg)
                  /\ IF HasPersonality(conversations[cid].studentId)
                     THEN /\ reqs' = [reqs EXCEPT ![r] =
                               [IdleReq EXCEPT !.pc = "awaitStudent", !.cid = cid,
                                               !.len0 = Len(conversations[cid].messages)]]
                          /\ Overlap
                          /\ UNCHANGED sent
                     ELSE /\ sent' = Sent("interact", cid, msg, Null, Null,
                                          ErrorResp(500, ErrSystemPrompt))
                          /\ UNCHANGED <<reqs, irregular>>
          /\ overlapped' = (overlapped \/ (Busy /\ err = Null))
    /\ UNCHANGED <<storeVars, judgeCalls>>

\* POST /api/interact from any caller
InteractStart(r) ==
  \E cid \in RequestIds, msg \in TutorMessages :
    /\ InteractRequest(r, cid, msg)
    /\ UNCHANGED client

\* POST /api/interact: the student's completion rejects (276-282)
InteractReplyFails(r) ==
  /\ At(r, "awaitStudent")
  /\ irregular < MaxIrregular
  /\ irregular' = irregular + 1
  /\ reqs' = [reqs EXCEPT ![r] = IdleReq]
  /\ sent' = Sent("interact", reqs[r].cid, "q", Null, Null,
                  ErrorResp(500, ErrStudentResponse))
  /\ UNCHANGED <<conversations, storeVars, histVars, client>>

\* POST /api/interact: the student's completion arrives (192-212, 267-282)
InteractReply(r) ==
  \E text \in StudentReplies \cup {NullContent} :
    /\ At(r, "awaitStudent")
    /\ text = NullContent => irregular < MaxIrregular
    /\ irregular' = IF text = NullContent THEN irregular + 1 ELSE irregular
    /\ LET cid == reqs[r].cid
           updated == addMessage(conversations, cid, "student", text)
           locked == getLockedPrediction(updated, cid)
           answer(resp) == /\ reqs' = [reqs EXCEPT ![r] = IdleReq]
                           /\ sent' = Sent("interact", cid, "q", Null, Null, resp)
       IN /\ conversations' = updated
          /\ IF text = NullContent
             THEN \* studentResponse.substring throws in console.log (197)
                  answer(ErrorResp(500, ErrStudentResponse))
             ELSE IF locked # Null
             THEN answer(InteractResp(text, updated[cid].turnNumber,
                                      updated[cid].isComplete, locked.level))
             ELSE IF StudentCount(updated[cid].messages) >= StudentMsgThreshold
             THEN /\ reqs' = [reqs EXCEPT ![r].pc = "awaitJudge", ![r].reply = text]
                  /\ UNCHANGED sent
             ELSE answer(InteractResp(text, updated[cid].turnNumber,
                                      updated[cid].isComplete, NullLevel))
          /\ judgeCalls' = IF reqs'[r].pc = "awaitJudge"
                           THEN [judgeCalls EXCEPT ![cid] = @ + 1] ELSE judgeCalls
    /\ UNCHANGED <<storeVars, overlapped, client>>

\* POST /api/interact: the judgment call settles (237-274)
InteractJudge(r) ==
  \E raw \in JudgeOutputs :
    /\ At(r, "awaitJudge")
    /\ LET cid == reqs[r].cid
           p == Prediction(raw)
           updated == IF p.store
                      THEN setLockedPrediction(conversations, cid, p.level, p.rationale, clock)
                      ELSE conversations
       IN /\ conversations' = updated
          /\ reqs' = [reqs EXCEPT ![r] = IdleReq]
          /\ sent' = Sent("interact", cid, "q", raw, getLockedPrediction(updated, cid),
                          IF p.escapes
                          THEN ErrorResp(500, ErrStudentResponse)
                          ELSE InteractResp(reqs[r].reply, updated[cid].turnNumber,
                                            updated[cid].isComplete, p.level))
    /\ UNCHANGED <<storeVars, irregular, histVars, client>>

\* index.mjs 289-296: the error response of a rejected request, Null if accepted
TutorReject(cid) ==
  IF cid = MissingId THEN ErrorResp(400, ErrTutorRequired)
  ELSE IF getConversation(conversations, cid) = Null THEN ErrorResp(404, ErrNotFound)
  ELSE Null

\* Mutant: the response calls turn 5 a tutoring turn.
Phase_strict(turn) == IF turn < PhaseBoundary THEN "diagnostic" ELSE "tutoring"

\* index.mjs 327
Phase(turn) == IF turn <= PhaseBoundary THEN "diagnostic" ELSE "tutoring"

\* Mutant: is_last_turn is set only beyond maxTurns.
TutorFinish_lateLast(text, turn, maxTurns, level) ==
  IF text = NullContent THEN ErrorResp(500, ErrTutorResponse)
  ELSE TutorResp(text, turn, Phase(turn), level, turn > maxTurns)

\* index.mjs 401-417: console.log reads tutorResponse.substring, which throws
\* on a completion without content, and the catch answers 500
TutorFinish(text, turn, maxTurns, level) ==
  IF text = NullContent THEN ErrorResp(500, ErrTutorResponse)
  ELSE TutorResp(text, turn, Phase(turn), level, turn >= maxTurns)

\* POST /api/tutor-response with the body {conversation_id}, up to the await
\* of the tutor's completion (286-319)
TutorRequest(r, cid) ==
    /\ FreeSlot(r)
    /\ LET err == TutorReject(cid)
       IN /\ IF err # Null
             THEN /\ sent' = Sent("tutor", cid, "", Null, Null, err)
                  /\ UNCHANGED <<reqs, irregular>>
             ELSE /\ reqs' = [reqs EXCEPT ![r] =
                       [IdleReq EXCEPT !.pc = "awaitTutor", !.cid = cid,
                                       !.turn = conversations[cid].turnNumber + 1,
                                       !.strategyPhase =
                                          TutorMessagesPhase(conversations[cid].turnNumber + 1)]]
                  /\ Overlap
                  /\ UNCHANGED sent
          /\ overlapped' = (overlapped \/ (Busy /\ err = Null))
    /\ UNCHANGED <<conversations, storeVars, judgeCalls>>

\* POST /api/tutor-response from any caller
TutorStart(r) ==
  \E cid \in RequestIds :
    /\ TutorRequest(r, cid)
    /\ UNCHANGED client

\* POST /api/tutor-response: the tutor's completion rejects (411-417)
TutorReplyFails(r) ==
  /\ At(r, "awaitTutor")
  /\ reqs' = [reqs EXCEPT ![r] = IdleReq]
  /\ sent' = Sent("tutor", reqs[r].cid, "", Null, Null, ErrorResp(500, ErrTutorResponse))
  /\ UNCHANGED <<conversations, storeVars, irregular, histVars, client>>

\* Mutant: the judgment runs from turn 1 on.
TutorJudgeDue_always(turn) == turn >= 1

\* index.mjs 339
TutorJudgeDue(turn) == turn >= JudgeTurn

\* POST /api/tutor-response: the tutor's completion arrives (326-343, 396-409)
TutorReply(r) ==
  \E text \in TutorReplies \cup {NullContent} :
    /\ At(r, "awaitTutor")
    /\ LET cid == reqs[r].cid
           turn == reqs[r].turn
           existing == getLockedPrediction(conversations, cid)
           answer(resp) == /\ reqs' = [reqs EXCEPT ![r] = IdleReq]
                           /\ sent' = Sent("tutor", cid, "", Null, Null, resp)
       IN /\ IF existing # Null
             THEN answer(TutorFinish(text, turn, conversations[cid].maxTurns, existing.level))
             ELSE IF TutorJudgeDue(turn)
             THEN /\ reqs' = [reqs EXCEPT ![r].pc = "awaitTutorJudge", ![r].reply = text]
                  /\ UNCHANGED sent
             ELSE answer(TutorFinish(text, turn, conversations[cid].maxTurns, NullLevel))
          /\ judgeCalls' = IF reqs'[r].pc = "awaitTutorJudge"
                           THEN [judgeCalls EXCEPT ![cid] = @ + 1] ELSE judgeCalls
    /\ UNCHANGED <<conversations, storeVars, irregular, overlapped, client>>

\* POST /api/tutor-response: the judgment call settles (363-409)
TutorJudge(r) ==
  \E raw \in JudgeOutputs :
    /\ At(r, "awaitTutorJudge")
    /\ LET cid == reqs[r].cid
           p == Prediction(raw)
           updated == IF p.store
                      THEN setLockedPrediction(conversations, cid, p.level, p.rationale, clock)
                      ELSE conversations
       IN /\ conversations' = updated
          /\ reqs' = [reqs EXCEPT ![r] = IdleReq]
          /\ sent' = Sent("tutor", cid, "", raw, getLockedPrediction(updated, cid),
                          IF p.escapes
                          THEN ErrorResp(500, ErrTutorResponse)
                          ELSE TutorFinish(reqs[r].reply, reqs[r].turn,
                                           updated[cid].maxTurns, p.level))
    /\ UNCHANGED <<storeVars, irregular, histVars, client>>

\* the response leaves the server; the next piece of handler code runs after it
Deliver ==
  /\ sent # NoneSent
  /\ sent' = NoneSent
  /\ UNCHANGED <<conversations, storeVars, reqs, irregular, histVars, client>>

Next ==
  \/ Deliver
  \/ \E r \in Reqs :
       \/ StartSession(r)
       \/ InteractStart(r)
       \/ InteractReplyFails(r)
       \/ InteractReply(r)
       \/ InteractJudge(r)
       \/ TutorStart(r)
       \/ TutorReplyFails(r)
       \/ TutorReply(r)
       \/ TutorJudge(r)

Spec == Init /\ [][Next]_vars

\* POST /api/interact on conversation c passes the checks of lines 155-166
AdvanceTurnAccepted(c) ==
  \E r \in Reqs :
    /\ InteractStart(r)
    /\ c \in DOMAIN conversations
    /\ conversations'[c].turnNumber = conversations[c].turnNumber + 1

\* an awaited completion call of handler r settles and the handler goes on
Settle(r) ==
  \/ InteractReply(r)
  \/ InteractReplyFails(r)
  \/ InteractJudge(r)
  \/ TutorReply(r)
  \/ TutorReplyFails(r)
  \/ TutorJudge(r)

\* Every response leaves the server; every awaited completion call settles
\* (the client library bounds a call by its timeout) and its handler goes on
\* when the event loop is free, which other requests let happen again and
\* again; and the caller of a session keeps sending tutor messages to it.
SpecLive ==
  /\ Spec
  /\ WF_vars(Deliver)
  /\ SF_vars(\E r \in Reqs : Settle(r))
  /\ \A c \in ConvIds : SF_vars(AdvanceTurnAccepted(c))

----------------------------------------------------------------------------
(* The browser client (useStudentSimulation.ts) driving the server: the    *)
(* calls of the hook are made one at a time, and no one else calls the     *)
(* server. A call of the hook up to its fetch and the handler code that    *)
(* the request runs on the server up to its first await are one action.    *)

ClientMessage(role, content) == [role |-> role, content |-> content]

\* prev.slice(0, -1)
sliceLast(messages) == SubSeq(messages, 1, Len(messages) - 1)

\* what the user types into sendMessage: a text, or nothing
ClientTutorMessages == TutorReplies \cup {""}

\* callApi (58-75): throws unless response.ok
ResponseOk(resp) == resp.status = 200

\* startConversation, up to the await of callApi (166-175)
ClientStartConversation ==
  /\ client.pc = "idle"
  /\ \E r \in Reqs, sid \in StartStudentIds, tid \in StartTopicIds :
       StartRequest(r, sid, tid)
  /\ client' = [client EXCEPT !.pc = "startConversation"]

\* startConversation, after the await (176-186)
ClientStartConversationDone ==
  /\ client.pc = "startConversation"
  /\ sent # NoneSent
  /\ sent' = NoneSent
  /\ client' = IF ResponseOk(sent.resp)
               THEN [IdleClient EXCEPT !.currentConversation = sent.cid]
               ELSE [client EXCEPT !.pc = "idle"]
  /\ UNCHANGED <<conversations, storeVars, reqs, irregular, histVars>>

\* sendMessage, up to the await of callApi (189-211): the tutor message is
\* added to the local list before the request is made
ClientSendMessage ==
  /\ client.pc = "idle"
  /\ client.currentConversation # MissingId
  /\ \E r \in Reqs, msg \in ClientTutorMessages :
       /\ InteractRequest(r, client.currentConversation, msg)
       /\ client' = [client EXCEPT
                       !.pc = "sendMessage",
                       !.messages = Append(@, ClientMessage("tutor", msg))]

\* sendMessage, after the await (213-237): the catch block removes the last
\* message of the list
ClientSendMessageDone ==
  /\ client.pc = "sendMessage"
  /\ sent # NoneSent
  /\ sent' = NoneSent
  /\ client' = IF ResponseOk(sent.resp)
               THEN [client EXCEPT
                       !.pc = "idle",
                       !.messages = Append(@, ClientMessage("student",
                                                            sent.resp.message)),
                       !.currentTurn = sent.resp.turn_number]
               ELSE [client EXCEPT !.pc = "idle",
                                   !.messages = sliceLast(@)]
  /\ UNCHANGED <<conversations, storeVars, reqs, irregular, histVars>>

\* autoTutorTurn, up to the await of generateTutorResponse (279-288, 257-267)
ClientAutoTutorTurn ==
  /\ client.pc = "idle"
  /\ client.currentConversation # MissingId
  /\ Len(client.messages)
       < Len(conversations[client.currentConversation].messages) + MaxClientExcess
  /\ \E r \in Reqs : TutorRequest(r, client.currentConversation)
  /\ client' = [client EXCEPT !.pc = "generateTutorResponse"]

\* autoTutorTurn, after the await of generateTutorResponse (269-296): the
\* generated message is added to the local list; on an error the catch
\* block (328-333) changes neither list nor counter
ClientAutoTutorGenerated ==
  /\ client.pc = "generateTutorResponse"
  /\ sent # NoneSent
  /\ sent' = NoneSent
  /\ client' = IF ResponseOk(sent.resp)
               THEN [client EXCEPT
                       !.pc = "autoTutorSend",
                       !.pending = sent.resp.message,
                       !.messages = Append(@, ClientMessage("tutor",
                                                            sent.resp.message))]
               ELSE [client EXCEPT !.pc = "idle"]
  /\ UNCHANGED <<conversations, storeVars, reqs, irregular, histVars>>

\* autoTutorTurn: the request of lines 299-305 reaches the server
ClientAutoTutorSend ==
  /\ client.pc = "autoTutorSend"
  /\ \E r \in Reqs : InteractRequest(r, client.currentConversation, client.pending)
  /\ client' = [client EXCEPT !.pc = "autoTutorInteract", !.pending = ""]

\* autoTutorTurn, after the await of /api/interact (307-333): the catch block
\* leaves the list as it is
ClientAutoTutorDone ==
  /\ client.pc = "autoTutorInteract"
  /\ sent # NoneSent
  /\ sent' = NoneSent
  /\ client' = IF ResponseOk(sent.resp)
               THEN [client EXCEPT
                       !.pc = "idle",
                       !.messages = Append(@, ClientMessage("student",
                                                            sent.resp.message)),
                       !.currentTurn = sent.resp.turn_number]
               ELSE [client EXCEPT !.pc = "idle"]
  /\ UNCHANGED <<conversations, storeVars, reqs, irregular, histVars>>

\* endConversation of the hook (240-244): local state only
ClientEndConversation ==
  /\ client.pc = "idle"
  /\ client.currentConversation # MissingId
  /\ client' = IdleClient
  /\ UNCHANGED <<conversations, storeVars, reqs, sent, irregular, histVars>>

NextClient ==
  \/ ClientStartConversation
  \/ ClientStartConversationDone
  \/ ClientSendMessage
  \/ ClientSendMessageDone
  \/ ClientAutoTutorTurn
  \/ ClientAutoTutorGenerated
  \/ ClientAutoTutorSend
  \/ ClientAutoTutorDone
  \/ ClientEndConversation
  \/ \E r \in Reqs :
       \/ InteractReplyFails(r)
       \/ InteractReply(r)
       \/ InteractJudge(r)
       \/ TutorReplyFails(r)
       \/ TutorReply(r)
       \/ TutorJudge(r)

SpecClient == Init /\ [][NextClient]_vars

----------------------------------------------------------------------------
(* The functions of tutorPrompts.mjs called directly, on any arguments *)

StrategyTurns == 1..MaxStrategyTurn
Phases == {"diagnostic", "tutoring"}
\* topic.name || '': a topic without a name and a topic named '' read the same
StrategyTopics == { [name |-> "Fractions"], [name |-> ""] }
StrategyStudent == [name |-> "Tim Weber"]
StrategyMessages ==
  { [role |-> "tutor", content |-> <<"i", "d", "k", "?">>],
    [role |-> "student", content |-> <<"I", "D", "K">>],
    [role |-> "student", content |-> <<"s", "o", " ", "7">>],
    [role |-> "student", content |-> <<"o", "k">>],
    [role |-> "student", content |-> NullText] }
Histories == SeqsUpTo(StrategyMessages, MaxHistory)

StrategyCall(op, turn, phase, topic, messages, val) ==
  [ op |-> op, turn |-> turn, maxTurns |-> MAX_TURNS, phase |-> phase,
    topic |-> topic, messages |-> messages, val |-> val ]

\* The functions keep no state: one call on each run covers every call.
CallBuildStrategyDirective ==
  /\ lastCall = NoCall
  /\ \E turn \in StrategyTurns, phase \in Phases, topic \in StrategyTopics,
        messages \in Histories :
       lastCall' = StrategyCall("buildStrategyDirective", turn, phase, topic, messages,
                                buildStrategyDirective(turn, MAX_TURNS, phase, topic, messages))
  /\ UNCHANGED <<conversations, clock, ended, httpVars>>

CallBuildTutorMessages ==
  /\ lastCall = NoCall
  /\ \E turn \in StrategyTurns, topic \in StrategyTopics, messages \in Histories :
       lastCall' = StrategyCall("buildTutorMessages", turn, TutorMessagesPhase(turn),
                                topic, messages,
                                buildTutorMessages(StrategyStudent, topic, messages,
                                                   turn, MAX_TURNS))
  /\ UNCHANGED <<conversations, clock, ended, httpVars>>

EstimateMessages ==
  StrategyMessages \cup
  { [role |-> "student", content |-> <<"m", "a", "y", "b", "e">>],
    [role |-> "student", content |-> <<"w", "a", "i", "t">>] }
EstimateHistories == SeqsUpTo(EstimateMessages, MaxEstimateHistory)

CallQuickEstimateForStrategy ==
  /\ lastCall = NoCall
  /\ \E messages \in EstimateHistories :
       lastCall' = [ op |-> "quickEstimateForStrategy", messages |-> messages,
                     val |-> quickEstimateForStrategy(messages) ]
  /\ UNCHANGED <<conversations, clock, ended, httpVars>>

NextStrategy ==
  \/ CallBuildStrategyDirective
  \/ CallBuildTutorMessages
  \/ CallQuickEstimateForStrategy

SpecStrategy == Init /\ [][NextStrategy]_vars

----------------------------------------------------------------------------
(* Properties of the session store *)

\* C1: addMessage with role 'tutor' raises the turn counter by exactly 1,
\* addMessage with role 'student' leaves it unchanged, and no store operation
\* lowers the turn counter of an existing session (nor changes it at all,
\* unless it is a tutor-authored addMessage).
C1_TurnCounterStep ==
  [][\A id \in DOMAIN conversations :
       LET c == conversations[id]
           d == conversations'[id]
       IN /\ id \in DOMAIN conversations'
          /\ d.turnNumber >= c.turnNumber
          /\ (d # c /\ lastCall'.op = "addMessage" /\ lastCall'.role = "tutor")
               => d.turnNumber = c.turnNumber + 1
          /\ (d # c /\ lastCall'.op = "addMessage" /\ lastCall'.role = "student")
               => d.turnNumber = c.turnNumber
          /\ d.turnNumber # c.turnNumber
               => (lastCall'.op = "addMessage" /\ lastCall'.role = "tutor")]_vars

\* C1 witness: a tutor message and a student message were both appended.
C1_Witness ==
  \E id \in DOMAIN conversations :
    /\ conversations[id].turnNumber = 2
    /\ StudentCount(conversations[id].messages) = 1
    /\ lastCall.op = "addMessage" /\ lastCall.role = "student"

\* C2 as stated: after any sequence of store operations, isComplete is true
\* if and only if turnNumber >= maxTurns.
C2_CompleteIffTurns ==
  \A id \in DOMAIN conversations :
    conversations[id].isComplete
      <=> conversations[id].turnNumber >= conversations[id].maxTurns

\* C2 amended: isComplete is true if and only if turnNumber >= maxTurns or
\* endConversation has been called on the session.
C2_CompleteIffTurnsOrEnded ==
  \A id \in DOMAIN conversations :
    conversations[id].isComplete
      <=> (conversations[id].turnNumber >= conversations[id].maxTurns
           \/ id \in ended)

\* C2 witness: a session completed by its turn counter alone.
C2_Witness ==
  \E id \in DOMAIN conversations :
    /\ conversations[id].turnNumber = conversations[id].maxTurns
    /\ conversations[id].isComplete
    /\ id \notin ended

\* C5: once a locked prediction is stored, no store operation changes it
\* (level, rationale, lockedAtTurn, lockedAt), and setLockedPrediction called
\* on that session returns the stored record whatever arguments it is given;
\* a call on a session without a prediction stores the arguments it is given.
C5_FirstWriterWins ==
  [][\A id \in DOMAIN conversations :
       LET p == conversations[id].lockedPrediction
           q == conversations'[id].lockedPrediction
           called == /\ lastCall' # lastCall
                     /\ lastCall'.op = "setLockedPrediction"
                     /\ lastCall'.id = id
       IN /\ p # Null => q = p
          /\ (p # Null /\ called) => lastCall'.val = p
          /\ (p = Null /\ called) =>
               /\ q = [ level |-> lastCall'.level,
                        rationale |-> lastCall'.rationale,
                        lockedAtTurn |-> conversations[id].turnNumber,
                        lockedAt |-> clock ]
               /\ lastCall'.val = q]_vars

\* C5 witness: setLockedPrediction was called with arguments that differ from
\* the stored record, at a later time and a later turn than the first call.
C5_Witness ==
  \E id \in DOMAIN conversations :
    LET p == conversations[id].lockedPrediction
    IN /\ p # Null
       /\ lastCall.op = "setLockedPrediction" /\ lastCall.id = id
       /\ lastCall.level # p.level
       /\ lastCall.rationale # p.rationale
       /\ clock > p.lockedAt
       /\ conversations[id].turnNumber > p.lockedAtTurn

\* C17: after every store operation the log of every session begins with
\* the log it had before (same roles, same contents, same positions); the
\* log changes only by addMessage on that session, which puts exactly one
\* message, with the role and content it was given, at the end.
C17_AppendOnly ==
  [][\A id \in DOMAIN conversations :
       LET old == conversations[id].messages
           new == conversations'[id].messages
           called == /\ lastCall' # lastCall
                     /\ lastCall'.op = "addMessage"
                     /\ lastCall'.id = id
       IN /\ Len(new) >= Len(old)
          /\ \A i \in 1..Len(old) : new[i] = old[i]
          /\ new # old => called
          /\ called => /\ Len(new) = Len(old) + 1
                       /\ new[Len(new)].role = lastCall'.role
                       /\ new[Len(new)].content \in StoreTexts]_vars

\* C17 witness: a student message was appended behind two tutor messages.
C17_Witness ==
  \E id \in DOMAIN conversations :
    LET m == conversations[id].messages
    IN /\ Len(m) = 3
       /\ m[1].role = "tutor" /\ m[2].role = "tutor" /\ m[3].role = "student"
       /\ lastCall.op = "addMessage" /\ lastCall.role = "student"

----------------------------------------------------------------------------
(* Properties of the HTTP endpoints *)

\* this step sends a response
Answers == sent = NoneSent /\ sent' # NoneSent

\* this step is the end of a handler that ran the judgment for conversation c
JudgeSettles(c) == Answers /\ sent'.raw # Null /\ sent'.cid = c

\* C3: POST /api/interact with a tutor message for a conversation whose
\* isComplete flag is true is answered 400 'Conversation is already complete',
\* no handler is left waiting for it, and the conversation (message log, turn
\* counter, completion flag, locked prediction) is unchanged.
C3_CompleteRejected ==
  [][\A c \in DOMAIN conversations :
       conversations[c].isComplete =>
         /\ \A r \in Reqs :
              ~(reqs[r].pc = "idle" /\ reqs'[r].pc = "awaitStudent" /\ reqs'[r].cid = c)
         /\ (Answers /\ reqs' = reqs /\ sent'.kind = "interact"
               /\ sent'.cid = c /\ sent'.msg # "")
              => /\ sent'.resp = ErrorResp(400, ErrComplete)
                 /\ conversations' = conversations]_vars

\* C3 witness: a session that reached maxTurns got the rejection.
C3_Witness ==
  /\ sent.kind = "interact"
  /\ sent.resp = ErrorResp(400, ErrComplete)
  /\ sent.cid \in DOMAIN conversations
  /\ conversations[sent.cid].turnNumber = conversations[sent.cid].maxTurns
  /\ conversations[sent.cid].isComplete

\* C4: POST /api/tutor-response never answers with a tutor message for a turn
\* number greater than maxTurns (a request on a complete session is rejected).
C4_NoTutorTurnBeyondMax ==
  (sent.kind = "tutor" /\ sent.resp.status = 200)
    => sent.resp.turn_number <= conversations[sent.cid].maxTurns

\* C6: a stored prediction is never overwritten, and every handler that ran
\* the judgment gets from setLockedPrediction the stored record: the record
\* of its own answer if none was stored, the record of the earlier writer
\* otherwise.
C6_OneWriter ==
  [][\A c \in DOMAIN conversations :
       LET p == conversations[c].lockedPrediction
           q == conversations'[c].lockedPrediction
       IN /\ p # Null => q = p
          /\ JudgeSettles(c) =>
               /\ q # Null
               /\ sent'.lockRet = q
               /\ p = Null =>
                    /\ q.level = Prediction(sent'.raw).level
                    /\ q.rationale = Prediction(sent'.raw).rationale]_vars

\* C6 witness: a second handler ran the judgment, got a different level and
\* a different rationale, and got the first writer's record back.
C6_Witness ==
  /\ sent.raw # Null
  /\ sent.cid \in DOMAIN conversations
  /\ sent.lockRet = conversations[sent.cid].lockedPrediction
  /\ sent.lockRet.level # Prediction(sent.raw).level
  /\ sent.lockRet.rationale # Prediction(sent.raw).rationale

\* C7: a 200 response of POST /api/interact sent when the log holds at least
\* 5 student messages leaves the session with a locked prediction, whatever
\* the judgment call did; and every 200 response of either endpoint sent
\* while a prediction is stored carries a non-null estimated_level.
C7_LockedAfterFive ==
  [][\A c \in DOMAIN conversations :
       LET d == conversations'[c]
       IN (Answers /\ sent'.cid = c /\ sent'.resp.status = 200) =>
            /\ (sent'.kind = "interact"
                  /\ StudentCount(d.messages) >= StudentMsgThreshold)
                 => d.lockedPrediction # Null
            /\ (sent'.kind \in {"interact", "tutor"} /\ d.lockedPrediction # Null)
                 => sent'.resp.estimated_level # NullLevel]_vars

\* C7 witness: the judgment call failed and the session is locked all the same.
C7_Witness ==
  /\ sent.kind = "interact"
  /\ sent.resp.status = 200
  /\ sent.raw # Null
  /\ sent.raw.k = "throw"
  /\ StudentCount(conversations[sent.cid].messages) >= StudentMsgThreshold
  /\ conversations[sent.cid].lockedPrediction # Null

\* C8: on both endpoints the judgment is invoked, and a prediction is stored,
\* only while the log holds at least 5 student messages.
C8_JudgeNeedsFiveStudentMessages ==
  /\ \A c \in DOMAIN conversations :
       conversations[c].lockedPrediction # Null
         => StudentCount(conversations[c].messages) >= StudentMsgThreshold
  /\ \A r \in Reqs :
       reqs[r].pc \in {"awaitJudge", "awaitTutorJudge"}
         => StudentCount(conversations[reqs[r].cid].messages) >= StudentMsgThreshold

\* the judgment call raised an error, or answered text that JSON.parse
\* rejects and that holds no digit of 1..5
Unusable(raw) ==
  \/ raw.k = "throw"
  \/ raw.k = "text" /\ ~IsJsonNumber(raw.chars) /\ FirstLevelDigit(raw.chars) = 0

\* C9: when the judgment call raises an error or answers unparseable text
\* without a digit of 1..5, the prediction it stores has level 3 and the
\* fixed fallback rationale.
C9_FallbackOnUnusable ==
  [][\A c \in DOMAIN conversations :
       (JudgeSettles(c) /\ Unusable(sent'.raw)
          /\ conversations[c].lockedPrediction = Null)
         => /\ conversations'[c].lockedPrediction.level = IntLevel(DefaultLevel)
            /\ conversations'[c].lockedPrediction.rationale = FallbackRationale]_vars

\* C10: when the judgment call answers a JSON object with an integer level L
\* of 1..5 and a rationale string R, and no prediction is stored, the stored
\* prediction has level L and rationale R, and a 200 response reports L.
C10_ValidJudgmentStored ==
  [][\A c \in DOMAIN conversations :
       LET raw == sent'.raw
           q == conversations'[c].lockedPrediction
       IN (JudgeSettles(c) /\ raw.k = "object"
             /\ raw.level.t = "int" /\ raw.level.v \in 1..5
             /\ raw.rationale.t = "str"
             /\ conversations[c].lockedPrediction = Null)
            => /\ q # Null
               /\ q.level = raw.level
               /\ q.rationale = raw.rationale.s
               /\ sent'.resp.status = 200
                    => sent'.resp.estimated_level = raw.level]_vars

\* C10 witness: {"level": 4, "rationale": "clear reasoning"} was stored as is.
C10_Witness ==
  /\ sent.raw = Raw("object", << >>, IntLevel(4), Str("clear reasoning"))
  /\ irregular = 0
  /\ conversations[sent.cid].lockedPrediction # Null
  /\ conversations[sent.cid].lockedPrediction.level = IntLevel(4)
  /\ conversations[sent.cid].lockedPrediction.rationale = "clear reasoning"

\* C11: when the judgment call answers text that JSON.parse rejects and no
\* prediction is stored, the stored level is the first character of the text
\* that is one of 1, 2, 3, 4, 5, if there is one; text that JSON.parse accepts
\* is never scanned for a digit (a bare number leaves the level at its
\* default, whatever digits it is written with).
C11_DigitScanAfterParseFailure ==
  [][\A c \in DOMAIN conversations :
       LET raw == sent'.raw
           q == conversations'[c].lockedPrediction
       IN (JudgeSettles(c) /\ raw.k = "text"
             /\ conversations[c].lockedPrediction = Null)
            => /\ ~IsJsonNumber(raw.chars) =>
                    \A i \in 1..Len(raw.chars) :
                      (/\ raw.chars[i] \in {"1", "2", "3", "4", "5"}
                       /\ \A j \in 1..(i - 1) :
                            raw.chars[j] \notin {"1", "2", "3", "4", "5"})
                        => q.level = IntLevel(DigitVal(raw.chars[i]))
               /\ IsJsonNumber(raw.chars) => q.level = IntLevel(DefaultLevel)]_vars

\* C11 witness: the answer "4x1" was stored as level 4.
C11_Witness ==
  /\ sent.raw # Null
  /\ sent.raw.k = "text"
  /\ sent.raw.chars = <<"4", "x", "1">>
  /\ irregular = 0
  /\ conversations[sent.cid].lockedPrediction.level = IntLevel(4)

\* C12: a stored prediction's level is an integer of 1..5, whatever the
\* judgment call answered.
C12_LevelIsInteger1To5 ==
  \A c \in DOMAIN conversations :
    LET p == conversations[c].lockedPrediction
    IN p # Null => (p.level.t = "int" /\ p.level.v \in 1..5)

\* C13: when the student's completion fails during POST /api/interact, the
\* request is answered 500 and the message log is as long as it was when
\* the request came in.
C13_FailedGenerationAppendsNothing ==
  [][\A r \in Reqs :
       (/\ reqs[r].pc = "awaitStudent"
        /\ reqs'[r].pc = "idle"
        /\ conversations' = conversations)
         => /\ sent'.resp = ErrorResp(500, ErrStudentResponse)
            /\ Len(conversations'[reqs[r].cid].messages) = reqs[r].len0]_vars

\* C14: POST /api/interact/start answered with an error creates no session,
\* and every session it creates refers to a student of the cache file and a
\* topic of that student; POST /api/interact and POST /api/tutor-response
\* with a missing or unknown conversation_id are answered 400 or 404, leave
\* no handler waiting and change no session.
C14_CallerErrorsChangeNothing ==
  [][Answers =>
       /\ (sent'.kind = "start" /\ sent'.resp.status # 200)
            => (conversations' = conversations /\ sent'.resp.status \in {400, 404})
       /\ (sent'.kind = "start" /\ sent'.resp.status = 200)
            => /\ sent'.cid \notin DOMAIN conversations
               /\ DOMAIN conversations' = DOMAIN conversations \cup {sent'.cid}
               /\ conversations'[sent'.cid].studentId \in Students
               /\ conversations'[sent'.cid].topicId = Topic
               /\ \A c \in DOMAIN conversations : conversations'[c] = conversations[c]
       /\ (sent'.kind \in {"interact", "tutor"} /\ sent'.cid \notin DOMAIN conversations)
            => /\ sent'.resp.status =
                    (IF sent'.cid = MissingId \/ (sent'.kind = "interact" /\ sent'.msg = "")
                     THEN 400 ELSE 404)
               /\ conversations' = conversations
               /\ reqs' = reqs]_vars

\* C14 witness: a request for an unknown conversation_id was answered 404
\* while a session existed that had messages.
C14_Witness ==
  /\ sent.kind = "tutor"
  /\ sent.cid = UnknownId
  /\ sent.resp = ErrorResp(404, ErrNotFound)
  /\ \E c \in DOMAIN conversations : Len(conversations[c].messages) >= 2

\* C15: a handler whose dialogue completion arrived with a text and that then
\* ran the judgment answers 200 with that text, whatever the judgment call
\* came back with.
C15_JudgeFailureAbsorbed ==
  [][\A r \in Reqs :
       (/\ reqs[r].pc \in {"awaitJudge", "awaitTutorJudge"}
        /\ reqs'[r].pc = "idle"
        /\ reqs[r].reply # NullContent)
         => /\ sent'.resp.status = 200
            /\ sent'.resp.message = reqs[r].reply
            /\ sent'.resp.error = ""]_vars

\* C15 witness: the judgment call of POST /api/tutor-response came back
\* without content and the tutor's message was sent all the same.
C15_Witness ==
  /\ sent.kind = "tutor"
  /\ sent.raw # Null
  /\ sent.raw.k = "null"
  /\ sent.resp.status = 200
  /\ sent.resp.message = "t"

\* C16: while no two requests have overlapped, the judgment has been called
\* at most once for a session; and with or without overlap the judgment is
\* called only while the session has no stored prediction.
C16_JudgeAtMostOnce ==
  [][\A c \in DOMAIN conversations :
       /\ ~overlapped' => judgeCalls'[c] <= 1
       /\ judgeCalls'[c] # judgeCalls[c]
            => /\ judgeCalls'[c] = judgeCalls[c] + 1
               /\ conversations[c].lockedPrediction = Null
               /\ conversations'[c].lockedPrediction = Null]_vars

\* C16 witness: the judgment was called once and failed, and a later turn of
\* the same session read the stored level without another call.
C16_Witness ==
  /\ ~overlapped
  /\ sent.kind = "interact"
  /\ sent.resp.status = 200
  /\ sent.raw = Null
  /\ judgeCalls[sent.cid] = 1
  /\ conversations[sent.cid].lockedPrediction # Null
  /\ conversations[sent.cid].lockedPrediction.rationale = FallbackRationale
  /\ sent.resp.estimated_level = conversations[sent.cid].lockedPrediction.level
  /\ conversations[sent.cid].turnNumber > conversations[sent.cid].lockedPrediction.lockedAtTurn

\* the roles of a log go tutor, student, tutor, student, ...
Alternates(msgs) ==
  \A i \in 1..Len(msgs) :
    msgs[i].role = (IF i % 2 = 1 THEN "tutor" ELSE "student")

\* C18: while no two requests have overlapped, whenever no request is being
\* handled the log of every session alternates tutor, student, ... from a
\* tutor message on.
C18_RolesAlternate ==
  (~overlapped /\ \A r \in Reqs : reqs[r].pc = "idle")
    => \A c \in DOMAIN conversations : Alternates(conversations[c].messages)

\* C19: every 200 response of POST /api/tutor-response reports a turn number
\* N >= 1 and the phase 'diagnostic' if N <= 5, 'tutoring' otherwise, and that
\* phase is the one buildTutorMessages handed to buildStrategyDirective when
\* the handler built the prompt of the turn.
C19_PhaseByTurn ==
  [][\A r \in Reqs :
       (/\ reqs[r].pc \in {"awaitTutor", "awaitTutorJudge"}
        /\ reqs'[r].pc = "idle"
        /\ sent'.resp.status = 200)
         => /\ sent'.resp.turn_number = reqs[r].turn
            /\ sent'.resp.turn_number >= 1
            /\ sent'.resp.phase = (IF sent'.resp.turn_number <= 5
                                   THEN "diagnostic" ELSE "tutoring")
            /\ sent'.resp.phase = reqs[r].strategyPhase]_vars

\* C19 witness: the response of turn 5, the last diagnostic turn.
C19_Witness ==
  /\ sent.kind = "tutor"
  /\ sent.resp.status = 200
  /\ sent.resp.turn_number = 5
  /\ sent.resp.phase = "diagnostic"

\* C20: buildStrategyDirective returns the opening-survey directive (three
\* questions labeled Basic/Intermediate/Advanced) for turn 1, whatever the
\* phase, the topic and the message history, and for a turn greater than 1
\* a directive with another text.
C20_OpeningSurveyOnlyAtTurnOne ==
  lastCall.op = "buildStrategyDirective" =>
    /\ lastCall.turn = 1 => lastCall.val = OpeningSurveyDirective
    /\ lastCall.turn > 1 =>
         /\ lastCall.val # OpeningSurveyDirective
         /\ lastCall.val.text # OpeningSurveyDirective.text
         /\ lastCall.val.turn = lastCall.turn

\* C20 witness: turn 1 called with the phase 'tutoring' and a history that
\* ends with a confused student.
C20_Witness ==
  /\ lastCall.op = "buildStrategyDirective"
  /\ lastCall.turn = 1
  /\ lastCall.phase = "tutoring"
  /\ Len(lastCall.messages) = 2
  /\ lastCall.messages[2] = [role |-> "student", content |-> <<"I", "D", "K">>]
  /\ lastCall.val = OpeningSurveyDirective

----------------------------------------------------------------------------
(* Properties of the prompt functions *)

\* the text has one of the markers, whatever the case of its letters
HasMarker(content, markers) ==
  content # NullText /\ \E m \in markers : includes(toLowerCase(content), m)

\* positions of the student messages of a history
StudentPositions(messages) ==
  {i \in 1..Len(messages) : messages[i].role = "student"}

\* C21: for a turn after the first, the guidance of the directive is fixed
\* by the phase, by whether the most recent student message has a confusion
\* marker, and by whether the heuristic level is at least 4: diagnostic and
\* confused, one clarification and one check question; diagnostic and not
\* confused, at most two diagnostic questions; tutoring and confused, resolve
\* the confusion, whatever the level; tutoring, not confused, level >= 4, a
\* transfer or 'why' question; tutoring, not confused, level < 4, a concise
\* explanation and one practice question.  A marker in an older student
\* message or in a tutor message does not count.
C21_GuidanceTable ==
  (lastCall.op = "buildStrategyDirective" /\ lastCall.turn > 1) =>
    LET msgs == lastCall.messages
        sp == StudentPositions(msgs)
        confused == \E i \in sp :
                      /\ \A j \in sp : j <= i
                      /\ HasMarker(msgs[i].content, CONFUSION_MARKERS)
        high == quickEstimateForStrategy(msgs) >= 4
        g == lastCall.val.guidance
    IN /\ (lastCall.phase = "diagnostic" /\ confused)
            => g = "If the student is confused, acknowledge it and give ONE short clarification, then ask ONE simple check question."
       /\ (lastCall.phase = "diagnostic" /\ ~confused)
            => g = "Ask at most TWO short diagnostic questions. Require a brief reason for one."
       /\ (lastCall.phase = "tutoring" /\ confused)
            => g = "Start by resolving the confusion from the last turn in 2-3 sentences, then ask ONE focused check question."
       /\ (lastCall.phase = "tutoring" /\ ~confused /\ high)
            => g = "Ask a transfer or 'why' question to probe depth. Require a 1-sentence justification."
       /\ (lastCall.phase = "tutoring" /\ ~confused /\ ~high)
            => g = "Give a concise explanation, then ask ONE practice question plus a short reason."

\* C21 witness: a confused student message followed by two student messages
\* with a reason and a number each, in the tutoring phase: the directive
\* asks for a transfer question.
C21_Witness ==
  /\ lastCall.op = "buildStrategyDirective"
  /\ lastCall.turn > 1
  /\ lastCall.phase = "tutoring"
  /\ lastCall.messages = << [role |-> "student", content |-> <<"I", "D", "K">>],
                            [role |-> "student", content |-> <<"s", "o", " ", "7">>],
                            [role |-> "student", content |-> <<"s", "o", " ", "7">>] >>
  /\ lastCall.val.guidance = GuidanceTutoringTransfer

\* what one student message adds to the score
ExpectedContribution(content) ==
  (IF HasMarker(content, CONFUSION_MARKERS) THEN -2 ELSE 0)
  + (IF HasMarker(content, hedgeMarkers) THEN -1 ELSE 0)
  + (IF HasMarker(content, reasonMarkers) THEN 1 ELSE 0)
  + (IF HasMarker(content, {<<"w", "a", "i", "t">>, <<"a", "c", "t", "u", "a", "l", "l", "y">>}) THEN 1 ELSE 0)
  + (IF content # NullText /\ \E i \in 1..Len(content) :
          content[i] \in {"0", "1", "2", "3", "4", "5", "6", "7", "8", "9"}
     THEN 1 ELSE 0)

\* the positions of the last three student messages of a history
LastThreeStudentPositions(messages) ==
  {i \in StudentPositions(messages) :
     Cardinality({j \in StudentPositions(messages) : j > i}) < 3}

RECURSIVE ExpectedScore(_, _)
ExpectedScore(messages, positions) ==
  IF positions = {} THEN 0
  ELSE LET i == CHOOSE k \in positions : TRUE
       IN ExpectedContribution(messages[i].content)
          + ExpectedScore(messages, positions \ {i})

\* C22: quickEstimateForStrategy returns the bucket of the score summed over
\* the last three student messages (tutor messages and older student
\* messages ignored), a message adding -2 for a confusion marker, -1 for a
\* hedging marker, +1 for a reasoning marker, +1 for a self-correction marker
\* and +1 for a digit; the bucket is 1 for a score <= -3, 2 for <= -1, 3 for
\* <= 1, 4 for <= 3, else 5.  The result is in 1..5, is 3 without a student
\* message, and is at least 3 when none of the last three student messages
\* has a confusion marker and each has a reasoning marker.
C22_EstimateIsBucketOfScore ==
  lastCall.op = "quickEstimateForStrategy" =>
    LET msgs == lastCall.messages
        last3 == LastThreeStudentPositions(msgs)
        score == ExpectedScore(msgs, last3)
    IN /\ lastCall.val = (IF score <= -3 THEN 1
                          ELSE IF score <= -1 THEN 2
                          ELSE IF score <= 1 THEN 3
                          ELSE IF score <= 3 THEN 4
                          ELSE 5)
       /\ lastCall.val \in 1..5
       /\ StudentPositions(msgs) = {} => lastCall.val = 3
       /\ (\A i \in last3 :
             /\ ~HasMarker(msgs[i].content, CONFUSION_MARKERS)
             /\ HasMarker(msgs[i].content, reasonMarkers))
            => lastCall.val >= 3

\* C22 witness: a confused first student message, then three student
\* messages with a reason and a number each: the first one no longer counts
\* and the estimate is 5.
C22_Witness ==
  /\ lastCall.op = "quickEstimateForStrategy"
  /\ Len(lastCall.messages) = 4
  /\ lastCall.messages[1] = [role |-> "student", content |-> <<"I", "D", "K">>]
  /\ \A i \in 2..4 :
       lastCall.messages[i] = [role |-> "student", content |-> <<"s", "o", " ", "7">>]
  /\ lastCall.val = 5

----------------------------------------------------------------------------
(* Properties of the HTTP endpoints: turns and completion *)

\* C23: through the HTTP endpoints a session becomes complete in the very
\* step in which an accepted POST /api/interact appends the tutor message
\* that brings the turn counter to maxTurns, neither earlier nor later; a
\* complete session stays complete; and a session whose caller keeps
\* sending tutor messages becomes complete.
C23_CompleteAtMaxTurns ==
  /\ [][\A c \in DOMAIN conversations :
          LET a == conversations[c]
              b == conversations'[c]
          IN /\ a.isComplete => b.isComplete
             /\ b.isComplete <=> b.turnNumber >= b.maxTurns
             /\ (~a.isComplete /\ b.isComplete)
                  => /\ a.turnNumber = a.maxTurns - 1
                     /\ b.turnNumber = a.maxTurns
                     /\ b.messages = Append(a.messages, b.messages[Len(b.messages)])
                     /\ b.messages[Len(b.messages)].role = "tutor"
                     /\ \/ \E r \in Reqs : /\ reqs[r].pc = "idle"
                                            /\ reqs'[r].pc = "awaitStudent"
                                            /\ reqs'[r].cid = c
                        \/ (sent'.kind = "interact" /\ sent'.cid = c)]_vars
  /\ \A c \in ConvIds :
       (c \in DOMAIN conversations)
         ~> (c \in DOMAIN conversations /\ conversations[c].isComplete)

\* C23 witness: a complete session with ten tutor messages, of which one got
\* no student reply.
C23_Witness ==
  \E c \in DOMAIN conversations :
    /\ conversations[c].isComplete
    /\ conversations[c].turnNumber = conversations[c].maxTurns
    /\ Len(conversations[c].messages) = 2 * conversations[c].maxTurns - 1
    /\ \A r \in Reqs : reqs[r].pc = "idle"

\* C24: the turn counter of a session never exceeds maxTurns, also when
\* requests for the session overlap at their awaits.
C24_TurnCounterBounded ==
  \A c \in DOMAIN conversations :
    conversations[c].turnNumber <= conversations[c].maxTurns

\* C24 witness: the session reached maxTurns by a request accepted while
\* another request was being handled, and a further tutor message sent
\* while a handler is still waiting was rejected.
C24_Witness ==
  /\ overlapped
  /\ sent.kind = "interact"
  /\ sent.resp = ErrorResp(400, ErrComplete)
  /\ conversations[sent.cid].turnNumber = conversations[sent.cid].maxTurns
  /\ \E r \in Reqs : reqs[r].pc = "awaitStudent" /\ reqs[r].cid = sent.cid

\* C25: in every state of a session the turn counter is the number of tutor
\* messages of the log, and the number of student messages is at most the
\* turn counter.
C25_TurnCounterCountsTutorMessages ==
  \A c \in DOMAIN conversations :
    LET roles == [i \in 1..Len(conversations[c].messages) |->
                    conversations[c].messages[i].role]
    IN /\ conversations[c].turnNumber
            = Cardinality({i \in DOMAIN roles : roles[i] = "tutor"})
       /\ Cardinality({i \in DOMAIN roles : roles[i] = "student"})
            <= conversations[c].turnNumber

\* C25 witness: three tutor messages, of which one got no student reply.
C25_Witness ==
  \E c \in DOMAIN conversations :
    /\ conversations[c].turnNumber = 3
    /\ Len(conversations[c].messages) = 5
    /\ \A r \in Reqs : reqs[r].pc = "idle"

\* C26: the estimated_level of every 200 response of POST /api/interact and
\* POST /api/tutor-response is the level of the prediction stored when the
\* response is built, and null only if none is stored.
C26_ReportedLevelIsStoredLevel ==
  [][(Answers /\ sent'.kind \in {"interact", "tutor"} /\ sent'.resp.status = 200)
       => LET p == conversations'[sent'.cid].lockedPrediction
          IN sent'.resp.estimated_level = (IF p = Null THEN NullLevel ELSE p.level)]_vars

\* C27: a complete session with no request being handled has a stored
\* prediction.
C27_CompleteSessionIsLocked ==
  \A c \in DOMAIN conversations :
    (conversations[c].isComplete /\ \A r \in Reqs : reqs[r].pc = "idle")
      => conversations[c].lockedPrediction # Null

\* C28: a stored prediction's lockedAtTurn is the turn counter of the
\* session at the step that stored it, and it is at least 5 and at most
\* maxTurns, on the path of either endpoint.
C28_LockedAtTurn ==
  [][\A c \in DOMAIN conversations :
       LET q == conversations'[c].lockedPrediction
       IN /\ (conversations[c].lockedPrediction = Null /\ q # Null)
               => /\ q.lockedAtTurn = conversations[c].turnNumber
                  /\ q.lockedAtTurn = conversations'[c].turnNumber
          /\ q # Null => (q.lockedAtTurn >= 5
                          /\ q.lockedAtTurn <= conversations'[c].maxTurns)]_vars

\* C28 witness: POST /api/tutor-response stored a prediction at turn counter
\* 5 (its turn 6), the earliest turn at which either endpoint locks.
C28_Witness ==
  /\ sent.kind = "tutor"
  /\ sent.raw # Null
  /\ conversations[sent.cid].lockedPrediction # Null
  /\ conversations[sent.cid].lockedPrediction.lockedAtTurn = 5
  /\ conversations[sent.cid].turnNumber = 5

\* C29: no step of a POST /api/tutor-response handler changes a message
\* log, a turn counter or a completion flag, whether the request succeeds or
\* fails (only the stored prediction may change, from none to one); the
\* handler computes its turn as turnNumber + 1 when the request comes in, and
\* a 200 response reports that turn and is_last_turn exactly when it is at
\* least maxTurns.
C29_TutorTurnReadsOnly ==
  [][\A r \in Reqs :
       LET started == reqs[r].pc = "idle" /\ reqs'[r].pc = "awaitTutor"
           moved == reqs[r].pc \in {"awaitTutor", "awaitTutorJudge"} /\ reqs'[r] # reqs[r]
           rejected == Answers /\ reqs' = reqs /\ sent'.kind = "tutor"
       IN /\ (started \/ moved \/ rejected) =>
               \A c \in DOMAIN conversations :
                 /\ conversations'[c].messages = conversations[c].messages
                 /\ conversations'[c].turnNumber = conversations[c].turnNumber
                 /\ conversations'[c].isComplete = conversations[c].isComplete
                 /\ conversations[c].lockedPrediction # Null
                      => conversations'[c].lockedPrediction = conversations[c].lockedPrediction
          /\ started =>
               reqs'[r].turn = conversations[reqs'[r].cid].turnNumber + 1
          /\ (moved /\ reqs'[r].pc = "idle" /\ sent'.resp.status = 200) =>
               /\ sent'.resp.turn_number = reqs[r].turn
               /\ sent'.resp.flag
                    <=> reqs[r].turn >= conversations[reqs[r].cid].maxTurns
               /\ ~overlapped =>
                    sent'.resp.turn_number = conversations'[reqs[r].cid].turnNumber + 1]_vars

\* C29 witness: the tutor message of turn 10 was generated and reported as
\* the last turn.
C29_Witness ==
  /\ sent.kind = "tutor"
  /\ sent.resp.status = 200
  /\ sent.resp.turn_number = 10
  /\ sent.resp.flag
  /\ conversations[sent.cid].turnNumber = 9
  /\ ~conversations[sent.cid].isComplete

----------------------------------------------------------------------------
\* the roles of a message list, in order
RolesOf(messages) == [i \in 1..Len(messages) |-> messages[i].role]

\* the hook has a conversation and no call of it is under way
ClientAtRest == client.pc = "idle" /\ client.currentConversation # MissingId

\* C30: after any sequence of sendMessage and autoTutorTurn calls of the
\* client on one conversation, failed /api/interact requests included, the
\* client's currentTurn equals the server's turnNumber and the client's
\* message list has the same roles in the same order as the server's log.
C30_ClientAgreesWithServer ==
  ClientAtRest =>
    LET conversation == conversations[client.currentConversation]
    IN /\ client.currentTurn = conversation.turnNumber
       /\ RolesOf(client.messages) = RolesOf(conversation.messages)

====
